---- MODULE Spec2Model ----
(***************************************************************************)
(* Model of calculator_server.py: a FastMCP server "Calculator" with six   *)
(* tools (add, subtract, multiply, divide, power, calculate).              *)
(*                                                                         *)
(* Python values are records [t, s, n, e]:                                 *)
(*   int      [t |-> "int",   n |-> k]            arbitrary precision      *)
(*   float    [t |-> "float", s |-> "fin", n |-> m, e |-> x]  = m * 10^x   *)
(*            [t |-> "float", s |-> "inf" | "-inf" | "nan"]                *)
(*   str      [t |-> "str",   s |-> text]                                  *)
(*   complex  [t |-> "complex"]                   value not tracked        *)
(*   builtin  [t |-> "fn",    s |-> name]                                  *)
(*   module   [t |-> "module", s |-> "builtins"]                           *)
(*   None, () [t |-> "none"], [t |-> "tuple"]                              *)
(* A float keeps FDigits significant decimal digits and the range of an    *)
(* IEEE double (overflow above 1.797e308, underflow below 1e-324); -0.0    *)
(* is identified with 0.0.  An int whose magnitude passes IntCap, and any  *)
(* operation the model does not compute, yields the marker "OutOfModel";   *)
(* the actions do not accept an input that evaluates to it.                *)
(***************************************************************************)
EXTENDS Integers, Sequences, FiniteSets, TLC

VARIABLES phase, loaded, registry, builtins, pc, request, result

vars == <<phase, loaded, registry, builtins, pc, request, result>>

(* ------------------------------ bounds -------------------------------- *)

\* longest expression text, in tokens, that calculate is sent in Spec
MaxLen == 4

\* longest expression text, in tokens, that calculate is sent in SpecArith
MaxArithLen == 5

\* largest magnitude of a Python int the model computes exactly
IntCap == 9999

(* ------------------------------ numbers ------------------------------- *)

\* significant decimal digits of the model's float
FDigits == 4

\* largest and smallest decimal exponents of a finite, nonzero double
DblMaxExp == 308

DblMinExp == -324

\* leading FDigits digits of the largest finite double, 1.797e308
DblMaxLead == 1797

AbsI(k) == IF k < 0 THEN 0 - k ELSE k

SgnI(k) == IF k < 0 THEN 0 - 1 ELSE IF k = 0 THEN 0 ELSE 1

RECURSIVE Pow10(_)
Pow10(k) == IF k <= 0 THEN 1 ELSE 10 * Pow10(k - 1)

RECURSIVE Digits(_)
Digits(k) == IF AbsI(k) < 10 THEN 1 ELSE 1 + Digits(AbsI(k) \div 10)

\* n / d rounded to the nearest integer, ties to even (d > 0)
RoundHalfEven(n, d) ==
    LET q == n \div d
        r == n - q * d
    IN  IF 2 * r < d THEN q
        ELSE IF 2 * r > d THEN q + 1
        ELSE IF q % 2 = 0 THEN q ELSE q + 1

RECURSIVE StripZeros(_, _)
StripZeros(m, x) ==
    IF m # 0 /\ m % 10 = 0 THEN StripZeros(m \div 10, x + 1) ELSE <<m, x>>

IntV(k) == [t |-> "int", s |-> "", n |-> k, e |-> 0]

StrV(txt) == [t |-> "str", s |-> txt, n |-> 0, e |-> 0]

FnV(name) == [t |-> "fn", s |-> name, n |-> 0, e |-> 0]

ComplexV == [t |-> "complex", s |-> "", n |-> 0, e |-> 0]

NoneV == [t |-> "none", s |-> "", n |-> 0, e |-> 0]

TupleV == [t |-> "tuple", s |-> "", n |-> 0, e |-> 0]

BuiltinsModule == [t |-> "module", s |-> "builtins", n |-> 0, e |-> 0]

Fin(m, x) == [t |-> "float", s |-> "fin", n |-> m, e |-> x]

FZero == Fin(0, 0)

FInf == [t |-> "float", s |-> "inf", n |-> 0, e |-> 0]

FNegInf == [t |-> "float", s |-> "-inf", n |-> 0, e |-> 0]

FNaN == [t |-> "float", s |-> "nan", n |-> 0, e |-> 0]

SignedInf(sign) == IF sign < 0 THEN FNegInf ELSE FInf

\* cm * 10^cx within the range of a double: overflow to an infinity,
\* underflow to zero
Ranged(cm, cx, d) ==
    IF d + cx - 1 > DblMaxExp
       \/ (d + cx - 1 = DblMaxExp /\ AbsI(cm) * Pow10(FDigits - d) > DblMaxLead)
    THEN SignedInf(cm)
    ELSE IF d + cx - 1 < DblMinExp THEN FZero
    ELSE Fin(cm, cx)

Canonical(c) == Ranged(c[1], c[2], Digits(c[1]))

\* m * 10^x cut to FDigits digits, ties to even
Rounded(m, x, cut) == StripZeros(RoundHalfEven(m, Pow10(cut)), x + cut)

\* how many digits k has beyond FDigits
Excess(d) == IF d > FDigits THEN d - FDigits ELSE 0

\* the float nearest to m * 10^x
MkFloat(m, x) ==
    IF m = 0 THEN FZero ELSE Canonical(Rounded(m, x, Excess(Digits(m))))

IsFinite(a) == a.t = "float" /\ a.s = "fin"

IsNaN(a) == a.t = "float" /\ a.s = "nan"

IsInf(a) == a.t = "float" /\ a.s \in {"inf", "-inf"}

\* -1, 0 or 1: the sign of a float that is not a NaN
FSign(a) == IF a.s = "inf" THEN 1 ELSE IF a.s = "-inf" THEN 0 - 1 ELSE SgnI(a.n)

\* decimal exponent of the leading digit of a finite nonzero float
Sci(a) == Digits(a.n) + a.e - 1

FNeg(a) ==
    IF a.s = "nan" THEN FNaN
    ELSE IF a.s = "inf" THEN FNegInf
    ELSE IF a.s = "-inf" THEN FInf
    ELSE Fin(0 - a.n, a.e)

\* float.__add__
FAdd(a, b) ==
    IF IsNaN(a) \/ IsNaN(b) THEN FNaN
    ELSE IF IsInf(a) /\ IsInf(b) THEN (IF a.s = b.s THEN a ELSE FNaN)
    ELSE IF IsInf(a) THEN a
    ELSE IF IsInf(b) THEN b
    ELSE IF a.n = 0 THEN b
    ELSE IF b.n = 0 THEN a
    ELSE IF Sci(a) - Sci(b) > FDigits + 1 THEN a
    ELSE IF Sci(b) - Sci(a) > FDigits + 1 THEN b
    ELSE LET x == IF a.e < b.e THEN a.e ELSE b.e
         IN  MkFloat(a.n * Pow10(a.e - x) + b.n * Pow10(b.e - x), x)

\* float.__sub__
FSub(a, b) == FAdd(a, FNeg(b))

\* float.__mul__
FMul(a, b) ==
    IF IsNaN(a) \/ IsNaN(b) THEN FNaN
    ELSE IF IsInf(a) \/ IsInf(b)
         THEN (IF FSign(a) * FSign(b) = 0 THEN FNaN
               ELSE SignedInf(FSign(a) * FSign(b)))
    ELSE MkFloat(a.n * b.n, a.e + b.e)

\* float.__truediv__ for a divisor that is not zero
FDiv(a, b) ==
    IF IsNaN(a) \/ IsNaN(b) THEN FNaN
    ELSE IF IsInf(a) /\ IsInf(b) THEN FNaN
    ELSE IF IsInf(a) THEN SignedInf(FSign(a) * FSign(b))
    ELSE IF IsInf(b) THEN FZero
    ELSE IF a.n = 0 THEN FZero
    ELSE LET k == 9 - Digits(a.n)
             q == RoundHalfEven(SgnI(b.n) * a.n * Pow10(k), AbsI(b.n))
         IN  MkFloat(q, a.e - b.e - k)

\* a < b on floats (false when either is a NaN)
FLess(a, b) ==
    IF IsNaN(a) \/ IsNaN(b) THEN FALSE
    ELSE IF a = b THEN FALSE
    ELSE IF a.s = "-inf" \/ b.s = "inf" THEN TRUE
    ELSE IF a.s = "inf" \/ b.s = "-inf" THEN FALSE
    ELSE IF FSign(a) # FSign(b) THEN FSign(a) < FSign(b)
    ELSE IF Sci(a) # Sci(b)
         THEN (IF FSign(a) > 0 THEN Sci(a) < Sci(b) ELSE Sci(b) < Sci(a))
    ELSE LET x == IF a.e < b.e THEN a.e ELSE b.e
         IN  a.n * Pow10(a.e - x) < b.n * Pow10(b.e - x)

\* whether a finite float is a whole number
IsWhole(a) == a.e >= 0

\* the int a whole finite float of small magnitude stands for
WholeOf(a) == a.n * Pow10(a.e)

(* --------------------------- float ** float --------------------------- *)

Ok(v) == [exc |-> "", v |-> v]

Raise(x) == [exc |-> x, v |-> NoneV]

RECURSIVE ISqrtIn(_, _, _)
\* the largest r in lo..hi with r * r <= k
ISqrtIn(k, lo, hi) ==
    IF lo >= hi THEN lo
    ELSE LET mid == (lo + hi + 1) \div 2
         IN  IF mid * mid <= k THEN ISqrtIn(k, mid, hi) ELSE ISqrtIn(k, lo, mid - 1)

\* the square root of a finite positive float, to FDigits digits
SqrtNearest(big, r) == IF big > r * r + r THEN r + 1 ELSE r

SqrtScaled(a, j) ==
    MkFloat(SqrtNearest(a.n * Pow10(j), ISqrtIn(a.n * Pow10(j), 0, 10000)), (a.e - j) \div 2)

SqrtShift(x, d) == IF (x - (8 - d)) % 2 = 0 THEN 8 - d ELSE 7 - d

FSqrt(a) == SqrtScaled(a, SqrtShift(a.e, Digits(a.n)))

FSquare(h) == FMul(h, h)

RECURSIVE FPowNat(_, _)
\* a ** k by squaring, for a finite float a and a natural k
FPowNat(a, k) ==
    IF k = 0 THEN Fin(1, 0)
    ELSE FMul(FSquare(FPowNat(a, k \div 2)), IF k % 2 = 0 THEN Fin(1, 0) ELSE a)

IsOddWhole(b) == IsFinite(b) /\ b.e = 0 /\ b.n % 2 # 0

\* the exponents the model computes with: whole ones and halves below 10^4
HalfSteps(b) == IF b.e >= 0 THEN 2 * WholeOf(b) ELSE b.n \div 5

IsHalfStep(b) == (b.e >= 0 /\ Sci(b) <= 3) \/ (b.e = 0 - 1 /\ b.n % 5 = 0 /\ Sci(b) <= 3)

\* ERANGE: an infinite result raises OverflowError
RangeChecked(r) == IF IsInf(r) THEN Raise("OverflowError") ELSE Ok(r)

Recip(neg, p) == IF neg THEN FDiv(Fin(1, 0), p) ELSE p

\* past 20 multiplications of FDigits digits a finite product, other than of
\* a power of ten, no longer has the digits of the double
Accurate(a, h, r) ==
    IF r.exc = "" /\ IsFinite(r.v) /\ r.v.n # 0 /\ a.n # 1 /\ AbsI(h) > 40
    THEN Raise("OutOfModel") ELSE r

PowSteps(a, h) ==
    RangeChecked(Recip(h < 0, FPowNat(IF h % 2 = 0 THEN a ELSE FSqrt(a),
                                      IF h % 2 = 0 THEN AbsI(h) \div 2 ELSE AbsI(h))))

\* a ** (h / 2) for an integer h
PowHalves(a, h) == Accurate(a, h, PowSteps(a, h))

\* pow() of the C library for a finite base above 0 other than 1 and a finite
\* exponent other than 0; ERANGE on overflow raises OverflowError
LibmPow(a, b) ==
    IF Sci(b) >= 4 /\ (FLess(Fin(1999, 0 - 3), a) \/ FLess(a, Fin(5001, 0 - 4)))
    THEN (IF FLess(Fin(1, 0), a) = (b.n > 0) THEN Raise("OverflowError") ELSE Ok(FZero))
    ELSE IF ~IsHalfStep(b) THEN Raise("OutOfModel")
    ELSE PowHalves(a, HalfSteps(b))

\* float.__pow__ (float_pow of CPython)
\* a negative base with an odd whole exponent gives the negated power
Signed(neg, r) == IF r.exc # "" THEN r ELSE Ok(IF neg THEN FNeg(r.v) ELSE r.v)

FPow(a, b) ==
    IF IsFinite(b) /\ b.n = 0 THEN Ok(Fin(1, 0))
    ELSE IF IsNaN(a) THEN Ok(FNaN)
    ELSE IF IsNaN(b) THEN (IF a = Fin(1, 0) THEN Ok(Fin(1, 0)) ELSE Ok(FNaN))
    ELSE IF IsInf(b)
         THEN (IF a \in {Fin(1, 0), Fin(0 - 1, 0)} THEN Ok(Fin(1, 0))
               ELSE IF (b.s = "inf") = (IsInf(a) \/ FLess(Fin(1, 0), a) \/ FLess(a, Fin(0 - 1, 0)))
                    THEN Ok(FInf)
               ELSE Ok(FZero))
    ELSE IF IsInf(a)
         THEN (IF b.n > 0
               THEN (IF IsOddWhole(b) THEN Ok(a) ELSE Ok(FInf))
               ELSE Ok(FZero))
    ELSE IF a.n = 0
         THEN (IF b.n < 0 THEN Raise("ZeroDivisionError") ELSE Ok(FZero))
    ELSE IF a.n < 0 /\ ~IsWhole(b) THEN Ok(ComplexV)
    ELSE IF AbsI(a.n) = 1 /\ a.e = 0
         THEN Ok(IF a.n < 0 /\ IsOddWhole(b) THEN Fin(0 - 1, 0) ELSE Fin(1, 0))
    ELSE Signed(a.n < 0 /\ IsOddWhole(b), LibmPow(IF a.n < 0 THEN FNeg(a) ELSE a, b))

(* --------------------------- Python operators -------------------------- *)

\* an int result, exact up to IntCap
IntR(k) == IF AbsI(k) > IntCap THEN Raise("OutOfModel") ELSE Ok(IntV(k))

\* float(int)
ToF(a) == IF a.t = "int" THEN MkFloat(a.n, 0) ELSE a

IsNum(a) == a.t \in {"int", "float"}

IsZero(a) == (a.t = "int" /\ a.n = 0) \/ (IsFinite(a) /\ a.n = 0)

RECURSIVE IntPowCapped(_, _, _)
\* acc * a^k, stopping once the magnitude passes IntCap (|a| >= 2)
IntPowCapped(a, k, acc) ==
    IF k = 0 \/ AbsI(acc) > IntCap THEN acc
    ELSE IntPowCapped(a, k - 1, acc * a)

\* int.__pow__ with an exponent >= 0
IntPow(a, k) ==
    IF k = 0 THEN IntR(1)
    ELSE IF a \in {0, 1} THEN IntR(a)
    ELSE IF a = 0 - 1 THEN IntR(IF k % 2 = 0 THEN 1 ELSE 0 - 1)
    ELSE IntR(IntPowCapped(a, k, 1))

RECURSIVE StrRepeat(_, _)
StrRepeat(txt, k) == IF k <= 0 THEN "" ELSE txt \o StrRepeat(txt, k - 1)

\* x op y on two floats
FloatOp(op, x, y) ==
    CASE op = "+" -> Ok(FAdd(x, y))
      [] op = "-" -> Ok(FSub(x, y))
      [] op = "*" -> Ok(FMul(x, y))
      [] op = "/" -> IF IsZero(y) THEN Raise("ZeroDivisionError") ELSE Ok(FDiv(x, y))
      [] op = "**" -> FPow(x, y)

\* j op k on two ints, where the result is an int
IntOp(op, j, k) ==
    CASE op = "+" -> IntR(j + k)
      [] op = "-" -> IntR(j - k)
      [] op = "*" -> IntR(j * k)
      [] op = "**" -> IntPow(j, k)

\* int op int stays an int, but for / and for ** with a negative exponent
StaysInt(op, a, b) ==
    a.t = "int" /\ b.t = "int" /\ op # "/" /\ ~(op = "**" /\ b.n < 0)

\* a op b for op in + - * / **, as the interpreter's binary operators do it
BinOp(op, a, b) ==
    IF StaysInt(op, a, b) THEN IntOp(op, a.n, b.n)
    ELSE IF IsNum(a) /\ IsNum(b) THEN FloatOp(op, ToF(a), ToF(b))
    ELSE IF (a.t = "complex" /\ (IsNum(b) \/ b.t = "complex")) \/ (IsNum(a) /\ b.t = "complex") THEN
        IF op \in {"+", "-", "*"} THEN Ok(ComplexV)
        ELSE IF op = "/" /\ IsNum(b) THEN (IF IsZero(b) THEN Raise("ZeroDivisionError") ELSE Ok(ComplexV))
        ELSE Raise("OutOfModel")
    ELSE IF a.t = "str" /\ b.t = "str" /\ op = "+" THEN Ok(StrV(a.s \o b.s))
    ELSE IF a.t = "str" /\ b.t = "int" /\ op = "*" THEN
        (IF b.n > 3 THEN Raise("OutOfModel") ELSE Ok(StrV(StrRepeat(a.s, b.n))))
    ELSE IF a.t = "int" /\ b.t = "str" /\ op = "*" THEN
        (IF a.n > 3 THEN Raise("OutOfModel") ELSE Ok(StrV(StrRepeat(b.s, a.n))))
    ELSE Raise("TypeError")

\* -a
Negate(a) ==
    IF a.t = "int" THEN IntR(0 - a.n)
    ELSE IF a.t = "float" THEN Ok(FNeg(a))
    ELSE IF a.t = "complex" THEN Ok(ComplexV)
    ELSE Raise("TypeError")

\* bool(a), for the operand of "or"
Truthy(a) ==
    IF a.t = "int" THEN a.n # 0
    ELSE IF a.t = "float" THEN ~(IsFinite(a) /\ a.n = 0)
    ELSE IF a.t = "str" THEN a.s # ""
    ELSE IF a.t \in {"none", "tuple"} THEN FALSE
    ELSE TRUE


(* ------------------------------ the lexer ------------------------------ *)
(* An expression text is the sequence of its tokens (the text is the       *)
(* tokens joined by blanks).                                               *)

NumberTokens == {"0", "1", "2", "3", "5", "7", "10", "0.5", "1e308", "1e999"}

StringTokens == {"'3.5'", "'abs'", "'x'"}

\* the whitelist of calculate
WhitelistNames == {"abs", "max", "min", "pow", "round"}

NameTokens == WhitelistNames \cup {"foo", "os", "x", "float", "setattr", "exit",
                                   "__self__", "__import__", "__builtins__"}

\* the value of a numeric literal
NumberValue(tok) ==
    CASE tok = "0" -> IntV(0)
      [] tok = "1" -> IntV(1)
      [] tok = "2" -> IntV(2)
      [] tok = "3" -> IntV(3)
      [] tok = "5" -> IntV(5)
      [] tok = "7" -> IntV(7)
      [] tok = "10" -> IntV(10)
      [] tok = "0.5" -> Fin(5, 0 - 1)
      [] tok = "1e308" -> Fin(1, 308)
      [] tok = "1e999" -> FInf

\* the text of a string literal
StringValue(tok) ==
    CASE tok = "'3.5'" -> "3.5"
      [] tok = "'abs'" -> "abs"
      [] tok = "'x'" -> "x"

(* ------------------------------ the parser ----------------------------- *)
(* Python's expression grammar, for eval(): a parse is                     *)
(* [ok, oom, ast, pos] with pos the index of the first token not consumed; *)
(* oom marks a form outside the model (a tuple display).                   *)

NoAst == [k |-> "none"]

Parsed(ast, pos) == [ok |-> TRUE, oom |-> FALSE, ast |-> ast, pos |-> pos]

SyntaxFail == [ok |-> FALSE, oom |-> FALSE, ast |-> NoAst, pos |-> 0]

ParseOom == [ok |-> FALSE, oom |-> TRUE, ast |-> NoAst, pos |-> 0]

At(toks, i) == IF i >= 1 /\ i <= Len(toks) THEN toks[i] ELSE "<end>"

RECURSIVE ParseStrings(_, _, _)
RECURSIVE ParseArgs(_, _, _)
RECURSIVE PrimaryRest(_, _, _)
RECURSIVE ParseFactor(_, _)
RECURSIVE TermRest(_, _, _)
RECURSIVE SumRest(_, _, _)
RECURSIVE DisjunctionRest(_, _, _)
RECURSIVE ParseExpression(_, _)

\* the node NAME ':=' r
WalrusNode(id, r) ==
    IF r.ok THEN Parsed([k |-> "walrus", id |-> id, a |-> r.ast], r.pos) ELSE r

\* expression !':='
NotBeforeWalrus(toks, r) == IF r.ok /\ At(toks, r.pos) = ":=" THEN SyntaxFail ELSE r

\* named_expression: NAME ':=' expression | expression !':='
ParseNamedExpression(toks, i) ==
    IF At(toks, i) \in NameTokens /\ At(toks, i + 1) = ":="
    THEN WalrusNode(toks[i], ParseExpression(toks, i + 2))
    ELSE NotBeforeWalrus(toks, ParseExpression(toks, i))

\* strings: STRING+ (adjacent literals are joined)
ParseStrings(toks, i, acc) ==
    IF At(toks, i) \in StringTokens
    THEN ParseStrings(toks, i + 1, acc \o StringValue(toks[i]))
    ELSE Parsed([k |-> "const", v |-> StrV(acc)], i)

\* the ')' that closes the group r
CloseGroup(toks, r) ==
    IF ~r.ok THEN r
    ELSE IF At(toks, r.pos) = ")" THEN Parsed(r.ast, r.pos + 1)
    ELSE IF At(toks, r.pos) = "," THEN ParseOom
    ELSE SyntaxFail

\* atom: NAME | NUMBER | strings | '(' ')' | '(' named_expression ')'
ParseAtom(toks, i) ==
    IF At(toks, i) \in NumberTokens
    THEN Parsed([k |-> "const", v |-> NumberValue(toks[i])], i + 1)
    ELSE IF At(toks, i) \in StringTokens THEN ParseStrings(toks, i, "")
    ELSE IF At(toks, i) \in NameTokens THEN Parsed([k |-> "name", id |-> toks[i]], i + 1)
    ELSE IF At(toks, i) = "(" THEN
        (IF At(toks, i + 1) = ")" THEN Parsed([k |-> "const", v |-> TupleV], i + 2)
         ELSE CloseGroup(toks, ParseNamedExpression(toks, i + 1)))
    ELSE SyntaxFail

\* what follows the argument r: ',' and more arguments, or ')'
ArgsAfter(toks, acc, r) ==
    IF ~r.ok THEN r
    ELSE IF At(toks, r.pos) = "," THEN ParseArgs(toks, r.pos + 1, Append(acc, r.ast))
    ELSE IF At(toks, r.pos) = ")"
         THEN Parsed([k |-> "args", args |-> Append(acc, r.ast)], r.pos + 1)
    ELSE SyntaxFail

\* the unpacked argument '*' r or '**' r, the last of the call
StarAfter(toks, acc, r) ==
    IF ~r.ok THEN r
    ELSE IF At(toks, r.pos) = ")"
         THEN Parsed([k |-> "args", args |-> Append(acc, [k |-> "star", a |-> r.ast])],
                     r.pos + 1)
    ELSE IF At(toks, r.pos) = "," THEN ParseOom
    ELSE SyntaxFail

\* arguments: (named_expression | '*' expression | '**' expression)
\*            (',' ...)* [','] before ')'
ParseArgs(toks, i, acc) ==
    IF At(toks, i) = ")" THEN Parsed([k |-> "args", args |-> acc], i + 1)
    ELSE IF At(toks, i) \in {"*", "**"} THEN StarAfter(toks, acc, ParseExpression(toks, i + 1))
    ELSE ArgsAfter(toks, acc, ParseNamedExpression(toks, i))

\* the call of left with the arguments r, and what follows it
CallAfter(toks, left, r) ==
    IF ~r.ok THEN r
    ELSE PrimaryRest(toks, r.pos, [k |-> "call", f |-> left, args |-> r.ast.args])

\* primary: primary '.' NAME | primary '(' [arguments] ')' | atom
PrimaryRest(toks, i, left) ==
    IF At(toks, i) = "." THEN
        (IF At(toks, i + 1) \in NameTokens
         THEN PrimaryRest(toks, i + 2, [k |-> "attr", o |-> left, id |-> toks[i + 1]])
         ELSE SyntaxFail)
    ELSE IF At(toks, i) = "(" THEN CallAfter(toks, left, ParseArgs(toks, i + 1, <<>>))
    ELSE Parsed(left, i)

PrimaryAfter(toks, a) == IF a.ok THEN PrimaryRest(toks, a.pos, a.ast) ELSE a

ParsePrimary(toks, i) == PrimaryAfter(toks, ParseAtom(toks, i))

\* the node left op r
BinNode(op, left, r) ==
    IF r.ok THEN Parsed([k |-> "bin", op |-> op, l |-> left, r |-> r.ast], r.pos) ELSE r

\* the node op r
UnaryNode(op, r) ==
    IF r.ok THEN Parsed([k |-> "un", op |-> op, a |-> r.ast], r.pos) ELSE r

PowerAfter(toks, b) ==
    IF b.ok /\ At(toks, b.pos) = "**"
    THEN BinNode("**", b.ast, ParseFactor(toks, b.pos + 1))
    ELSE b

\* power: primary '**' factor | primary
ParsePower(toks, i) == PowerAfter(toks, ParsePrimary(toks, i))

RECURSIVE SignedPrimary(_, _)
\* a primary under its signs
SignedPrimary(toks, i) ==
    IF At(toks, i) \in {"-", "+"}
    THEN UnaryNode(toks[i], SignedPrimary(toks, i + 1))
    ELSE ParsePrimary(toks, i)

\* a grammar in which the signs belong to the base of a power:
\* factor: ('+' | '-')* primary ['**' factor]
ParseFactorSignFirst(toks, i) == PowerAfter(toks, SignedPrimary(toks, i))

\* factor: '+' factor | '-' factor | power
ParseFactor(toks, i) ==
    IF At(toks, i) \in {"-", "+"}
    THEN UnaryNode(toks[i], ParseFactor(toks, i + 1))
    ELSE ParsePower(toks, i)

TermAfter(toks, r) == IF r.ok THEN TermRest(toks, r.pos, r.ast) ELSE r

\* term: term '*' factor | term '/' factor | factor
TermRest(toks, i, left) ==
    IF At(toks, i) \in {"*", "/"}
    THEN TermAfter(toks, BinNode(toks[i], left, ParseFactor(toks, i + 1)))
    ELSE Parsed(left, i)

ParseTerm(toks, i) == TermAfter(toks, ParseFactor(toks, i))

SumAfter(toks, r) == IF r.ok THEN SumRest(toks, r.pos, r.ast) ELSE r

\* sum: sum '+' term | sum '-' term | term
SumRest(toks, i, left) ==
    IF At(toks, i) \in {"+", "-"}
    THEN SumAfter(toks, BinNode(toks[i], left, ParseTerm(toks, i + 1)))
    ELSE Parsed(left, i)

ParseSum(toks, i) == SumAfter(toks, ParseTerm(toks, i))

\* the node left or r
OrNode(left, r) ==
    IF r.ok THEN Parsed([k |-> "or", l |-> left, r |-> r.ast], r.pos) ELSE r

DisjunctionAfter(toks, r) == IF r.ok THEN DisjunctionRest(toks, r.pos, r.ast) ELSE r

\* disjunction: sum ('or' sum)*
DisjunctionRest(toks, i, left) ==
    IF At(toks, i) = "or"
    THEN DisjunctionAfter(toks, OrNode(left, ParseSum(toks, i + 1)))
    ELSE Parsed(left, i)

\* expression: disjunction
ParseExpression(toks, i) == DisjunctionAfter(toks, ParseSum(toks, i))

\* the end of the text after the expression r
EndAfter(toks, r) ==
    IF ~r.ok THEN r
    ELSE IF r.pos = Len(toks) + 1 THEN r
    ELSE IF At(toks, r.pos) = "," THEN ParseOom
    ELSE SyntaxFail

\* eval: expression ENDMARKER
ParseEval(toks) == EndAfter(toks, ParseExpression(toks, 1))

(* ------------------------- the builtin functions ----------------------- *)

Unbound == [t |-> "unbound", s |-> "", n |-> 0, e |-> 0]

DictV == [t |-> "dict", s |-> "", n |-> 0, e |-> 0]

\* the names of the builtins module that the model tracks
BuiltinKeys == {"abs", "max", "min", "pow", "round", "float", "setattr", "exit", "foo", "x"}

\* the builtins module of a fresh interpreter
PristineBuiltins ==
    [key \in BuiltinKeys |-> IF key \in {"foo", "x"} THEN Unbound ELSE FnV(key)]

\* a < b for ints and floats
NumLess(a, b) ==
    IF a.t = "int" /\ b.t = "int" THEN a.n < b.n ELSE FLess(ToF(a), ToF(b))

\* abs(x)
BuiltinAbs(args) ==
    IF Len(args) # 1 THEN Raise("TypeError")
    ELSE LET a == args[1]
         IN  IF a.t = "int" THEN IntR(AbsI(a.n))
             ELSE IF a.t = "float" THEN
                 (IF IsNaN(a) THEN Ok(FNaN) ELSE IF IsInf(a) THEN Ok(FInf)
                  ELSE Ok(Fin(AbsI(a.n), a.e)))
             ELSE IF a.t = "complex" THEN Raise("OutOfModel")
             ELSE Raise("TypeError")

RECURSIVE FoldBest(_, _, _, _)
\* max (wantMax) or min over args[k..], cur being the best so far
FoldBest(args, k, cur, wantMax) ==
    IF k > Len(args) THEN Ok(cur)
    ELSE LET a == args[k]
         IN  IF IsNum(a) /\ IsNum(cur) THEN
                 FoldBest(args, k + 1,
                          IF (IF wantMax THEN NumLess(cur, a) ELSE NumLess(a, cur)) THEN a ELSE cur,
                          wantMax)
             ELSE IF a.t = cur.t /\ a.t \in {"str", "tuple"} THEN Raise("OutOfModel")
             ELSE Raise("TypeError")

\* max(...) and min(...)
BuiltinMaxMin(args, wantMax) ==
    IF Len(args) = 0 THEN Raise("TypeError")
    ELSE IF Len(args) = 1 THEN
        (IF args[1].t = "str"
         THEN (IF args[1].s = "" THEN Raise("ValueError") ELSE Raise("OutOfModel"))
         ELSE IF args[1].t \in {"tuple", "dict"} THEN Raise("ValueError")
         ELSE Raise("TypeError"))
    ELSE FoldBest(args, 2, args[1], wantMax)

\* pow(base, exp[, mod])
BuiltinPow(args) ==
    IF Len(args) = 2 THEN BinOp("**", args[1], args[2])
    ELSE IF Len(args) = 3 THEN
        (IF \E k \in 1..3 : args[k].t # "int" THEN Raise("TypeError")
         ELSE IF args[3].n = 0 THEN Raise("ValueError")
         ELSE IF args[2].n < 0 \/ args[3].n < 0 THEN Raise("OutOfModel")
         ELSE LET p == IntPow(args[1].n, args[2].n)
              IN  IF p.exc # "" THEN p ELSE IntR(p.v.n % args[3].n))
    ELSE Raise("TypeError")

\* round(number[, ndigits])
BuiltinRound(args) ==
    IF Len(args) \notin {1, 2} THEN Raise("TypeError")
    ELSE LET a == args[1]
             one == Len(args) = 1 \/ args[2].t = "none"
         IN  IF ~IsNum(a) THEN Raise("TypeError")
             ELSE IF ~one /\ args[2].t # "int" THEN Raise("TypeError")
             ELSE IF a.t = "int" THEN
                 (IF one \/ args[2].n >= 0 THEN Ok(a) ELSE Raise("OutOfModel"))
             ELSE IF one THEN
                 (IF IsNaN(a) THEN Raise("ValueError")
                  ELSE IF IsInf(a) THEN Raise("OverflowError")
                  ELSE IF a.n = 0 \/ Sci(a) < 0 - 1 THEN IntR(0)
                  ELSE IF Sci(a) > 8 THEN Raise("OutOfModel")
                  ELSE IF a.e >= 0 THEN IntR(WholeOf(a))
                  ELSE IntR(RoundHalfEven(a.n, Pow10(0 - a.e))))
             ELSE IF ~IsFinite(a) THEN Ok(a)
             ELSE LET shift == 0 - args[2].n - a.e
                  IN  IF a.n = 0 \/ shift <= 0 THEN Ok(a)
                      ELSE IF shift > Digits(a.n) + 1 THEN Ok(FZero)
                      ELSE IF 2 * (a.n % Pow10(shift)) = Pow10(shift) THEN Raise("OutOfModel")
                      ELSE Ok(MkFloat(RoundHalfEven(a.n, Pow10(shift)), 0 - args[2].n))

\* float(x)
BuiltinFloat(args) ==
    IF Len(args) = 0 THEN Ok(FZero)
    ELSE IF Len(args) > 1 THEN Raise("TypeError")
    ELSE LET a == args[1]
         IN  IF IsNum(a) THEN Ok(ToF(a))
             ELSE IF a.t = "str" THEN
                 (IF a.s = "3.5" THEN Ok(Fin(35, 0 - 1)) ELSE Raise("ValueError"))
             ELSE Raise("TypeError")

\* setattr(obj, name, value): [exc, v, bi], bi the builtins module afterwards
BuiltinSetattr(args, bi) ==
    IF Len(args) # 3 THEN [exc |-> "TypeError", v |-> NoneV, bi |-> bi]
    ELSE IF args[2].t # "str" THEN [exc |-> "TypeError", v |-> NoneV, bi |-> bi]
    ELSE IF args[1] = BuiltinsModule THEN
        (IF args[2].s \in BuiltinKeys
         THEN [exc |-> "", v |-> NoneV, bi |-> [bi EXCEPT ![args[2].s] = args[3]]]
         ELSE [exc |-> "OutOfModel", v |-> NoneV, bi |-> bi])
    ELSE IF args[1] = FnV("float") THEN [exc |-> "TypeError", v |-> NoneV, bi |-> bi]
    ELSE IF args[1] = FnV("exit") THEN [exc |-> "OutOfModel", v |-> NoneV, bi |-> bi]
    ELSE [exc |-> "AttributeError", v |-> NoneV, bi |-> bi]

\* f(*args): [exc, v, bi]
CallFn(f, args, bi) ==
    LET pure(r) == [exc |-> r.exc, v |-> r.v, bi |-> bi]
    IN  IF f.t # "fn" THEN pure(Raise("TypeError"))
        ELSE CASE f.s = "abs" -> pure(BuiltinAbs(args))
               [] f.s = "max" -> pure(BuiltinMaxMin(args, TRUE))
               [] f.s = "min" -> pure(BuiltinMaxMin(args, FALSE))
               [] f.s = "pow" -> pure(BuiltinPow(args))
               [] f.s = "round" -> pure(BuiltinRound(args))
               [] f.s = "float" -> pure(BuiltinFloat(args))
               [] f.s = "setattr" -> BuiltinSetattr(args, bi)
               [] f.s = "exit" -> pure(IF Len(args) > 1 THEN Raise("TypeError")
                                       ELSE Raise("SystemExit"))

\* getattr(v, name), for the names of NameTokens
GetAttr(v, name, bi) ==
    IF name \in {"__import__", "__builtins__"} THEN Raise("OutOfModel")
    ELSE IF v.t = "fn" /\ v.s \notin {"float", "exit"} /\ name = "__self__" THEN Ok(BuiltinsModule)
    ELSE IF v = BuiltinsModule /\ name \in BuiltinKeys /\ bi[name] # Unbound THEN Ok(bi[name])
    ELSE Raise("AttributeError")

(* ----------------------------- the evaluator --------------------------- *)
(* eval(expression, {"__builtins__": {}}, allowed_names): the outcome      *)
(* [exc, v, loc, bi] carries the local namespace and the process's         *)
(* builtins module as the evaluation leaves them.                          *)

Out(exc, v, loc, bi) == [exc |-> exc, v |-> v, loc |-> loc, bi |-> bi]

\* a name: the locals, then the globals {"__builtins__": {}}, then its
\* empty builtins
LoadName(id, loc) ==
    IF loc[id] # Unbound THEN Ok(loc[id])
    ELSE IF id = "__builtins__" THEN Ok(DictV)
    ELSE Raise("NameError")

RECURSIVE Eval(_, _, _)
RECURSIVE EvalArgs(_, _, _, _, _)

\* NAME := r
Bind(id, r) ==
    IF r.exc # "" THEN r ELSE Out("", r.v, [r.loc EXCEPT ![id] = r.v], r.bi)

\* the outcome r of an operand, with the operator's [exc, v] on it
Applied(r, u) == Out(u.exc, u.v, r.loc, r.bi)

\* op r
Unary(op, r) ==
    IF r.exc # "" THEN r
    ELSE IF op = "-" THEN Applied(r, Negate(r.v))
    ELSE IF IsNum(r.v) \/ r.v.t = "complex" THEN r
    ELSE Applied(r, Raise("TypeError"))

\* l op r, both operands evaluated
Binary(op, l, r) == IF r.exc # "" THEN r ELSE Applied(r, BinOp(op, l.v, r.v))

\* the right operand is evaluated after the left one
BinaryAfter(ast, l) ==
    IF l.exc # "" THEN l ELSE Binary(ast.op, l, Eval(ast.r, l.loc, l.bi))

\* l or r: r is evaluated only when l is false
OrAfter(ast, l) ==
    IF l.exc # "" THEN l
    ELSE IF l.v.t = "complex" THEN Out("OutOfModel", NoneV, l.loc, l.bi)
    ELSE IF Truthy(l.v) THEN l
    ELSE Eval(ast.r, l.loc, l.bi)

\* o.NAME
AttrAfter(id, o) == IF o.exc # "" THEN o ELSE Applied(o, GetAttr(o.v, id, o.bi))

\* the outcome a of the arguments, with the call's [exc, v, bi] on it
Called(a, c) == Out(c.exc, c.v, a.loc, c.bi)

\* f(args), the arguments evaluated
CallWith(f, a) == IF a.exc # "" THEN a ELSE Called(a, CallFn(f.v, a.v, a.bi))

\* the arguments are evaluated after the callee
CallAfterCallee(ast, f) ==
    IF f.exc # "" THEN f ELSE CallWith(f, EvalArgs(ast.args, 1, <<>>, f.loc, f.bi))

\* an unpacked argument: a number, a function, a module or None is neither
\* iterable nor a mapping
Starred(r) ==
    IF r.exc # "" THEN r
    ELSE Out(IF r.v.t \in {"str", "tuple", "dict"} THEN "OutOfModel" ELSE "TypeError",
             NoneV, r.loc, r.bi)

ArgsNext(args, k, acc, r) ==
    IF r.exc # "" THEN r ELSE EvalArgs(args, k + 1, Append(acc, r.v), r.loc, r.bi)

EvalArgs(args, k, acc, loc, bi) ==
    IF k > Len(args) THEN Out("", acc, loc, bi)
    ELSE ArgsNext(args, k, acc, Eval(args[k], loc, bi))

Eval(ast, loc, bi) ==
    CASE ast.k = "const" -> Out("", ast.v, loc, bi)
      [] ast.k = "name" -> Applied(Out("", NoneV, loc, bi), LoadName(ast.id, loc))
      [] ast.k = "walrus" -> Bind(ast.id, Eval(ast.a, loc, bi))
      [] ast.k = "un" -> Unary(ast.op, Eval(ast.a, loc, bi))
      [] ast.k = "bin" -> BinaryAfter(ast, Eval(ast.l, loc, bi))
      [] ast.k = "or" -> OrAfter(ast, Eval(ast.l, loc, bi))
      [] ast.k = "attr" -> AttrAfter(ast.id, Eval(ast.o, loc, bi))
      [] ast.k = "call" -> CallAfterCallee(ast, Eval(ast.f, loc, bi))
      [] ast.k = "star" -> Starred(Eval(ast.a, loc, bi))

(* ------------------------------ the tools ------------------------------ *)
(* A handler's outcome is [tag, v, exc, msg]: it returns v (tag "return")  *)
(* or raises exc with message msg (tag "raise"); tag "oom" marks an input  *)
(* the model does not compute.                                             *)

Returned(v) == [tag |-> "return", v |-> v, exc |-> "", msg |-> ""]

Raised(exc, msg) ==
    [tag |-> IF exc = "OutOfModel" THEN "oom" ELSE "raise", v |-> NoneV, exc |-> exc, msg |-> msg]

\* what a handler makes of an operator's [exc, v]
Outcome(r) == IF r.exc = "" THEN Returned(r.v) ELSE Raised(r.exc, "")

\* the classes that "except Exception" catches; SystemExit is not one
ExceptionClasses == {"NameError", "TypeError", "ValueError", "ZeroDivisionError",
                     "OverflowError", "SyntaxError", "AttributeError"}

add(a, b) == Returned(FAdd(a, b))

subtract(a, b) == Returned(FSub(a, b))

\* multiply with the body of add
multiplyAdding(a, b) == Returned(FAdd(a, b))

multiply(a, b) == Returned(FMul(a, b))

\* divide without its guard: the division itself meets the zero
divideUnguarded(a, b) == Outcome(FloatOp("/", a, b))

divide(a, b) ==
    IF IsZero(b) THEN Raised("ValueError", "Cannot divide by zero")
    ELSE Returned(FDiv(a, b))

power(base, exponent) == Outcome(FPow(base, exponent))

\* allowed_names, built from the builtins module as it is at the call
AllowedNames(bi) ==
    [id \in NameTokens |-> IF id \in WhitelistNames THEN bi[id] ELSE Unbound]

\* eval(expression, {"__builtins__": {}}, allowed_names)
PyEval(p, allowed_names, bi) ==
    IF p.ok THEN Eval(p.ast, allowed_names, bi)
    ELSE Out(IF p.oom THEN "OutOfModel" ELSE "SyntaxError", NoneV, allowed_names, bi)

\* return float(result), or the exception that eval or float raised
FloatOf(r) == IF r.exc # "" THEN [exc |-> r.exc, v |-> r.v, bi |-> r.bi]
              ELSE CallFn(r.bi["float"], <<r.v>>, r.bi)

\* except Exception as e: raise ValueError(f"Invalid expression: {str(e)}")
Handle(f) ==
    IF f.exc = "" THEN [out |-> Returned(f.v), bi |-> f.bi]
    ELSE IF f.exc \in ExceptionClasses
         THEN [out |-> Raised("ValueError", "Invalid expression: " \o f.exc), bi |-> f.bi]
    ELSE [out |-> Raised(f.exc, ""), bi |-> f.bi]

\* calculate(expression): [out, bi], bi the builtins module afterwards
calculate(expression, bi) ==
    Handle(FloatOf(PyEval(ParseEval(expression), AllowedNames(bi), bi)))

(* --------------------------- the state machine ------------------------- *)

\* the module with calculate left undecorated
ToolDeclsWithoutCalculate == <<"add", "subtract", "multiply", "divide", "power">>

\* the functions under @mcp.tool(), in the order the module defines them
ToolDecls == <<"add", "subtract", "multiply", "divide", "power", "calculate">>

\* the arguments the arithmetic tools are called with
FloatArgs == {Fin(0 - 8, 0), Fin(0 - 2, 0), Fin(0 - 1, 0), Fin(0 - 5, 0 - 1), FZero,
              Fin(5, 0 - 1), Fin(1, 0), Fin(2, 0), Fin(3, 0), Fin(3142, 0 - 3),
              Fin(1, 1), Fin(4, 2),
              Fin(1, 308), FInf, FNegInf, FNaN}

\* every text of at most len tokens of T
TextsUpTo(T, len) == UNION {[1..k -> T] : k \in 0..len}

\* the tokens of the texts calculate is sent in Spec
CalcTokens == {"1", "1e308", "'3.5'", "foo", "abs", "or", "*", "(", ")"}

\* longer texts calculate is sent in Spec
ProbeTexts ==
    { <<"abs", ".", "__self__", ".", "exit", "(", ")">>,
      <<"abs", ".", "__self__", ".", "setattr", "(", "abs", ".", "__self__", ",",
        "'abs'", ",", "min", ")">>,
      <<"(", "abs", ":=", "1", ")", "+", "abs">>,
      <<"(", "x", ":=", "5", ")", "+", "x">>,
      <<"max", "(", "3", ",", "7", ")", "-", "min", "(", "1", ",", "2", ")">>,
      <<"10", "+", "5", "*", "2">>,
      <<"pow", "(", "2", ",", "3", ")">>,
      <<"round", "(", "5", "/", "2", ")">>,
      <<"(", "-", "2", ")", "**", "0.5">>,
      <<"1", "/", "0">>,
      <<"2", "**", "0.5">>,
      <<"__import__", "(", "'x'", ")">>,
      <<"os", ".", "setattr", "(", "'x'", ")">> }

CalcTexts == TextsUpTo(CalcTokens, MaxLen) \cup ProbeTexts

\* the tokens of the arithmetic texts calculate is sent in SpecArith
ArithTokens == {"2", "3", "-", "+", "*", "/", "**", "(", ")"}

\* longer arithmetic texts calculate is sent in SpecArith
ArithProbes ==
    { <<"10", "+", "5", "*", "2">>,
      <<"(", "-", "2", ")", "**", "2">>,
      <<"-", "(", "2", "+", "3", ")", "**", "2">> }

ArithTexts == TextsUpTo(ArithTokens, MaxArithLen) \cup ArithProbes

NoValue == NoneV

NoRequest == [op |-> "", a |-> NoValue, b |-> NoValue, expression |-> <<>>]

NoResult == [tag |-> "", v |-> NoValue, exc |-> "", msg |-> ""]

Registered(op) == \E k \in 1..Len(registry) : registry[k] = op

Init ==
    /\ phase = "loading"
    /\ loaded = 0
    /\ registry = <<>>
    /\ builtins = PristineBuiltins
    /\ pc = "idle"
    /\ request = NoRequest
    /\ result = NoResult

\* @mcp.tool(): the next decorated function is added to the server's tools
Register ==
    /\ phase = "loading"
    /\ loaded < Len(ToolDecls)
    /\ loaded' = loaded + 1
    /\ registry' = Append(registry, ToolDecls[loaded + 1])
    /\ UNCHANGED <<phase, builtins, pc, request, result>>

\* mcp.run(): the module is loaded and the server takes calls
Run ==
    /\ phase = "loading"
    /\ loaded = Len(ToolDecls)
    /\ phase' = "serving"
    /\ UNCHANGED <<loaded, registry, builtins, pc, request, result>>

\* the server is serving, no call is in progress, and op is one of its tools
Idle(op) == phase = "serving" /\ pc = "idle" /\ Registered(op)

ArithCall(op, a, b) == [op |-> op, a |-> a, b |-> b, expression |-> <<>>]

CalcCall(expression) ==
    [op |-> "calculate", a |-> NoValue, b |-> NoValue, expression |-> expression]

\* the handler of call ran to the end with outcome out
Handled(call, out) ==
    /\ out.tag # "oom"
    /\ request' = call
    /\ result' = out
    /\ pc' = "returned"

InvokeAdd ==
    /\ Idle("add")
    /\ \E a \in FloatArgs, b \in FloatArgs : Handled(ArithCall("add", a, b), add(a, b))
    /\ UNCHANGED <<phase, loaded, registry, builtins>>

InvokeSubtract ==
    /\ Idle("subtract")
    /\ \E a \in FloatArgs, b \in FloatArgs :
           Handled(ArithCall("subtract", a, b), subtract(a, b))
    /\ UNCHANGED <<phase, loaded, registry, builtins>>

InvokeMultiply ==
    /\ Idle("multiply")
    /\ \E a \in FloatArgs, b \in FloatArgs :
           Handled(ArithCall("multiply", a, b), multiply(a, b))
    /\ UNCHANGED <<phase, loaded, registry, builtins>>

InvokeDivide ==
    /\ Idle("divide")
    /\ \E a \in FloatArgs, b \in FloatArgs : Handled(ArithCall("divide", a, b), divide(a, b))
    /\ UNCHANGED <<phase, loaded, registry, builtins>>

InvokePower ==
    /\ Idle("power")
    /\ \E base \in FloatArgs, exponent \in FloatArgs :
           Handled(ArithCall("power", base, exponent), power(base, exponent))
    /\ UNCHANGED <<phase, loaded, registry, builtins>>

\* calculate(expression) ran to the end with c = [out, bi]: its outcome and
\* the builtins module it leaves behind
Served(expression, c) ==
    /\ Handled(CalcCall(expression), c.out)
    /\ builtins' = c.bi

InvokeCalculateText ==
    /\ Idle("calculate")
    /\ \E expression \in CalcTexts : Served(expression, calculate(expression, builtins))
    /\ UNCHANGED <<phase, loaded, registry>>

InvokeCalculateArith ==
    /\ Idle("calculate")
    /\ \E expression \in ArithTexts : Served(expression, calculate(expression, builtins))
    /\ UNCHANGED <<phase, loaded, registry>>

\* the outcome goes back to the caller; the request and the result are dropped
Respond ==
    /\ pc = "returned"
    /\ pc' = "idle"
    /\ request' = NoRequest
    /\ result' = NoResult
    /\ UNCHANGED <<phase, loaded, registry, builtins>>

Next ==
    \/ Register
    \/ Run
    \/ InvokeAdd
    \/ InvokeSubtract
    \/ InvokeMultiply
    \/ InvokeDivide
    \/ InvokePower
    \/ InvokeCalculateText
    \/ Respond

Spec == Init /\ [][Next]_vars

NextArith ==
    \/ Register
    \/ Run
    \/ InvokeCalculateArith
    \/ Respond

SpecArith == Init /\ [][NextArith]_vars

(* ------------------------------ the claims ----------------------------- *)
(* The specification names the outcomes of a call Success and Failure of a  *)
(* kind; a handler signals a failure by the exception it raises.           *)

InvalidExpressionMessages == {"Invalid expression: " \o c : c \in ExceptionClasses}

\* the specification's name for an outcome of a handler
KindOf(out) ==
    IF out.tag = "return" THEN "Success"
    ELSE IF out.exc = "ValueError" /\ out.msg = "Cannot divide by zero" THEN "DivisionByZero"
    ELSE IF out.exc = "ValueError" /\ out.msg \in InvalidExpressionMessages
         THEN "InvalidExpression"
    ELSE IF out.exc \in {"ValueError", "TypeError", "ZeroDivisionError", "OverflowError"}
         THEN "InvalidArgument"
    ELSE "Uncaught"

\* a call of op has run its handler to the end
Done(op) == pc = "returned" /\ request.op = op

\* position i of the text holds an identifier: a name that is not the
\* attribute after a dot
IsIdentifierAt(toks, i) ==
    /\ toks[i] \in NameTokens
    /\ ~(i > 1 /\ toks[i - 1] = ".")

\* the text references an identifier outside the whitelist
ReferencesOutsideWhitelist(toks) ==
    \E i \in 1..Len(toks) : IsIdentifierAt(toks, i) /\ toks[i] \notin WhitelistNames

\* C1: every expression text that references an identifier outside the
\* whitelist {abs, max, min, pow, round} makes calculate fail with
\* InvalidExpression, never return a Success value.
C1_OutsideIdentifierFails ==
    (Done("calculate") /\ ReferencesOutsideWhitelist(request.expression))
        => KindOf(result) = "InvalidExpression"

\* the tokens of the forms the specification permits: numeric literals, the
\* operators + - * / **, parentheses, and calls of whitelisted functions
PermittedTokens ==
    NumberTokens \cup {"+", "-", "*", "/", "**", "(", ")", ","} \cup WhitelistNames

UsesOnlyPermittedForms(toks) == \A i \in 1..Len(toks) : toks[i] \in PermittedTokens

\* C2: calculate returns Success only for expressions built from numeric
\* literals, + - * / **, parentheses and calls of whitelisted functions; an
\* expression using any other form (a string literal, an attribute access,
\* an assignment expression, another operator) fails with InvalidExpression.
C2_OnlyPermittedFormsSucceed ==
    Done("calculate") =>
        IF UsesOnlyPermittedForms(request.expression)
        THEN KindOf(result) \in {"Success", "InvalidExpression"}
        ELSE KindOf(result) = "InvalidExpression"

\* C3: a Success result of calculate always carries a finite real number; a
\* value that is infinite, NaN or not real makes calculate fail.
C3_SuccessIsFinite ==
    (Done("calculate") /\ KindOf(result) = "Success") => IsFinite(result.v)

\* C5: every invocation of calculate ends in Success(number) or in
\* Failure(InvalidExpression); no other failure escapes the handler.
C5_OnlySuccessOrInvalidExpression ==
    Done("calculate") => KindOf(result) \in {"Success", "InvalidExpression"}

\* base ** exponent has no real value
UndefinedForReals(base, exponent) ==
    /\ IsFinite(base) /\ IsFinite(exponent)
    /\ \/ base.n < 0 /\ ~IsWhole(exponent)
       \/ base.n = 0 /\ exponent.n < 0

\* C7: power returns a real number as Success or fails with InvalidArgument,
\* and it fails with InvalidArgument whenever base ** exponent is undefined
\* for reals; it never returns a non-real value as Success.
C7_PowerRealOrInvalidArgument ==
    Done("power") =>
        /\ KindOf(result) \in {"Success", "InvalidArgument"}
        /\ KindOf(result) = "Success" => result.v.t = "float"
        /\ UndefinedForReals(request.a, request.b) => KindOf(result) = "InvalidArgument"

\* the outcome of the call in a process that has served no call before
FreshOutcome(call) ==
    CASE call.op = "add" -> add(call.a, call.b)
      [] call.op = "subtract" -> subtract(call.a, call.b)
      [] call.op = "multiply" -> multiply(call.a, call.b)
      [] call.op = "divide" -> divide(call.a, call.b)
      [] call.op = "power" -> power(call.a, call.b)
      [] call.op = "calculate" -> calculate(call.expression, PristineBuiltins).out

\* C8: no call affects a later call: after any sequence of invocations the
\* result of a call depends only on its name and arguments, so it is the
\* result the same call has in a process that has served no call before.
C8_ResultDependsOnlyOnCall == pc = "returned" => result = FreshOutcome(request)

(* What a + b, a * b and a / b are, stated on exact scaled integers: the    *)
(* result is within half a unit in its last place of the exact value, an    *)
(* infinity past the range of a double, and follows IEEE 754 on infinities  *)
(* and NaN.                                                                 *)

\* |S| * 10^m is past the largest double
OverRange(S, m) ==
    \/ Digits(S) + m - 1 > DblMaxExp
    \/ /\ Digits(S) + m - 1 = DblMaxExp
       /\ IF Digits(S) > FDigits
          THEN AbsI(S) \div Pow10(Digits(S) - FDigits) > DblMaxLead
          ELSE AbsI(S) * Pow10(FDigits - Digits(S)) > DblMaxLead

\* the exponent of a unit in the last place of the finite float r
UlpExp(r) == Sci(r) - (FDigits - 1)

\* r is a float nearest to the integer S times 10^m
IsNearest(r, S, m) ==
    IF S = 0 THEN r = FZero
    ELSE IF OverRange(S, m) THEN r = SignedInf(S)
    ELSE /\ IsFinite(r) /\ r.n # 0 /\ r.e >= m
         /\ IF UlpExp(r) <= m
            THEN r.n * Pow10(r.e - m) = S
            ELSE 2 * AbsI(r.n * Pow10(r.e - m) - S) <= Pow10(UlpExp(r) - m)

MinI(j, k) == IF j < k THEN j ELSE k

\* b is too small to change a when added to it
Negligible(b, a) == Sci(a) - Sci(b) > FDigits + 1

\* r is a + b
IsSum(r, a, b) ==
    IF IsNaN(a) \/ IsNaN(b) THEN IsNaN(r)
    ELSE IF IsInf(a) /\ IsInf(b) THEN (IF a = b THEN r = a ELSE IsNaN(r))
    ELSE IF IsInf(a) THEN r = a
    ELSE IF IsInf(b) THEN r = b
    ELSE IF b.n = 0 THEN r = a
    ELSE IF a.n = 0 THEN r = b
    ELSE IF Negligible(b, a) THEN r = a
    ELSE IF Negligible(a, b) THEN r = b
    ELSE IsNearest(r, a.n * Pow10(a.e - MinI(a.e, b.e)) + b.n * Pow10(b.e - MinI(a.e, b.e)),
                   MinI(a.e, b.e))

\* the float with the sign reversed, stated on the representation
Opposite(b) ==
    IF IsNaN(b) THEN b
    ELSE IF IsInf(b) THEN (IF b = FInf THEN FNegInf ELSE FInf)
    ELSE [b EXCEPT !.n = 0 - b.n]

\* the sign of a float other than NaN: -1, 0 or 1
SignOf(a) == IF IsInf(a) THEN (IF a = FInf THEN 1 ELSE 0 - 1) ELSE SgnI(a.n)

\* r is a * b
IsProduct(r, a, b) ==
    IF IsNaN(a) \/ IsNaN(b) THEN IsNaN(r)
    ELSE IF IsInf(a) \/ IsInf(b)
         THEN (IF SignOf(a) * SignOf(b) = 0 THEN IsNaN(r)
               ELSE r = SignedInf(SignOf(a) * SignOf(b)))
    ELSE IsNearest(r, a.n * b.n, a.e + b.e)

\* the mantissa of a finite float other than zero, padded to FDigits digits
Padded(r) == r.n * Pow10(FDigits - Digits(r.n))

\* the exponent that goes with the padded mantissa
PaddedExp(r) == r.e - (FDigits - Digits(r.n))

\* |a / b| is past the largest double (a and b finite, neither zero)
QuotientOverRange(a, b) ==
    /\ a.e - b.e >= DblMaxExp - (FDigits - 1)
    /\ AbsI(a.n) * Pow10(a.e - b.e - (DblMaxExp - (FDigits - 1))) > DblMaxLead * AbsI(b.n)

\* r * b is within half a unit of r's last place, times |b|, of a; all three
\* are scaled to the exponent m
QuotientNear(rn, re, a, b, m) ==
    2 * AbsI(rn * b.n * Pow10(re + b.e - m) - a.n * Pow10(a.e - m))
        <= AbsI(b.n) * Pow10(re + b.e - m)

\* r is a / b, for b other than zero
IsQuotient(r, a, b) ==
    IF IsNaN(a) \/ IsNaN(b) THEN IsNaN(r)
    ELSE IF IsInf(a) THEN (IF IsInf(b) THEN IsNaN(r) ELSE r = SignedInf(SignOf(a) * SignOf(b)))
    ELSE IF IsInf(b) \/ a.n = 0 THEN r = FZero
    ELSE IF QuotientOverRange(a, b) THEN r = SignedInf(SignOf(a) * SignOf(b))
    ELSE /\ IsFinite(r) /\ r.n # 0
         /\ QuotientNear(Padded(r), PaddedExp(r), a, b, MinI(PaddedExp(r) + b.e, a.e))

\* C4: divide(a, b) fails with DivisionByZero if and only if b is exactly
\* zero; for every other b it returns Success(a / b).
C4_DivideFailsIffZero ==
    Done("divide") =>
        IF IsFinite(request.b) /\ request.b.n = 0
        THEN KindOf(result) = "DivisionByZero"
        ELSE KindOf(result) = "Success" /\ IsQuotient(result.v, request.a, request.b)

\* divide(10, 0) has failed with DivisionByZero
C4_DividedByZero ==
    /\ Done("divide") /\ request.a = Fin(1, 1) /\ request.b = FZero
    /\ KindOf(result) = "DivisionByZero"

SixTools == {"add", "subtract", "multiply", "divide", "power", "calculate"}

\* how many times name is registered
TimesRegistered(name) == Cardinality({k \in 1..Len(registry) : registry[k] = name})

C10_AddSubtractMultiplyReturn ==
    /\ Done("add") => KindOf(result) = "Success" /\ IsSum(result.v, request.a, request.b)
    /\ Done("subtract") =>
           KindOf(result) = "Success" /\ IsSum(result.v, request.a, Opposite(request.b))
    /\ Done("multiply") =>
           KindOf(result) = "Success" /\ IsProduct(result.v, request.a, request.b)

\* multiply(3.142, 3.142) has returned the rounded product 9.872
C10_RoundedProduct ==
    /\ Done("multiply") /\ request.a = Fin(3142, 0 - 3) /\ request.b = Fin(3142, 0 - 3)
    /\ result = Returned(Fin(9872, 0 - 3))

(* A reference evaluator for arithmetic texts: precedence climbing on the  *)
(* token sequence, computing values as it goes. tight says whether a unary  *)
(* sign binds tighter than the power operator (the specification's order)   *)
(* or looser (the power is taken first, then the sign).                     *)

\* how strongly a binary operator holds the operand on its left; 0: none
LeftBp(op) ==
    IF op \in {"+", "-"} THEN 10
    ELSE IF op \in {"*", "/"} THEN 20
    ELSE IF op = "**" THEN 40
    ELSE 0

\* the least binding power of an operator inside its right operand: one more
\* than its own for the left-associative ones, its own for **
RightBp(op) == IF op = "**" THEN LeftBp(op) ELSE LeftBp(op) + 1

\* the least binding power of an operator inside the operand of a sign
SignBp(tight) == IF tight THEN 50 ELSE 30

RefValue(r, pos) == [ok |-> TRUE, r |-> r, pos |-> pos]

RefFail == [ok |-> FALSE, r |-> Raise("SyntaxError"), pos |-> 0]

\* the sign applied to the value of operand
RefSigned(sign, operand) ==
    IF ~operand.ok \/ operand.r.exc # "" \/ sign = "+" THEN operand
    ELSE RefValue(Negate(operand.r.v), operand.pos)

\* the closing parenthesis after inner
RefClose(toks, inner) ==
    IF inner.ok /\ At(toks, inner.pos) = ")" THEN RefValue(inner.r, inner.pos + 1)
    ELSE RefFail

\* left op right; the first failure is the one that counts
RefCombine(op, left, right) ==
    IF ~right.ok THEN right
    ELSE IF left.r.exc # "" THEN RefValue(left.r, right.pos)
    ELSE IF right.r.exc # "" THEN right
    ELSE RefValue(BinOp(op, left.r.v, right.r.v), right.pos)

RECURSIVE RefExpr(_, _, _, _)
RECURSIVE RefInfix(_, _, _, _)

\* a literal, a signed operand or a parenthesised expression at position i
RefPrefix(toks, i, tight) ==
    IF At(toks, i) \in NumberTokens THEN RefValue(Ok(NumberValue(toks[i])), i + 1)
    ELSE IF At(toks, i) \in {"-", "+"}
         THEN RefSigned(toks[i], RefExpr(toks, i + 1, SignBp(tight), tight))
    ELSE IF At(toks, i) = "(" THEN RefClose(toks, RefExpr(toks, i + 1, 0, tight))
    ELSE RefFail

\* left followed by the operators that bind at least as strongly as minbp
RefInfix(toks, left, minbp, tight) ==
    IF ~left.ok THEN left
    ELSE IF LeftBp(At(toks, left.pos)) > 0 /\ LeftBp(At(toks, left.pos)) >= minbp
         THEN RefInfix(toks,
                       RefCombine(toks[left.pos], left,
                                  RefExpr(toks, left.pos + 1, RightBp(toks[left.pos]), tight)),
                       minbp, tight)
    ELSE left

RefExpr(toks, i, minbp, tight) == RefInfix(toks, RefPrefix(toks, i, tight), minbp, tight)

\* the outcome of the reference evaluator on the whole text
RefDone(toks, p) ==
    IF ~p.ok \/ p.pos # Len(toks) + 1 THEN [kind |-> "InvalidExpression", v |-> NoneV]
    ELSE IF p.r.exc = "OutOfModel" THEN [kind |-> "OutOfModel", v |-> NoneV]
    ELSE IF p.r.exc # "" \/ ~IsNum(p.r.v) THEN [kind |-> "InvalidExpression", v |-> NoneV]
    ELSE [kind |-> "Success", v |-> ToF(p.r.v)]

RefOutcome(toks, tight) == RefDone(toks, RefExpr(toks, 1, 0, tight))

AgreesWith(out, ref) ==
    /\ KindOf(out) = ref.kind
    /\ ref.kind = "Success" => out.v = ref.v

\* the text holds only numeric literals, + - * / **, and parentheses
IsArithmeticText(toks) ==
    \A i \in 1..Len(toks) :
        toks[i] \in NumberTokens \cup {"+", "-", "*", "/", "**", "(", ")"}

\* calculate has run to the end on an arithmetic text
DoneArithmetic == Done("calculate") /\ IsArithmeticText(request.expression)

\* C6 as stated: calculate evaluates with the precedence unary minus >
\* exponentiation > multiplication/division > addition/subtraction, ** being
\* right-associative and the others left-associative: its result equals that
\* of a reference evaluator with this precedence.
C6_UnaryMinusBindsFirst ==
    DoneArithmetic => AgreesWith(result, RefOutcome(request.expression, TRUE))

\* C6 amended: calculate evaluates with the precedence exponentiation > unary
\* minus > multiplication/division > addition/subtraction, ** being
\* right-associative and the others left-associative: its result equals that
\* of a reference evaluator with this precedence.
C6_ExponentiationBindsFirst ==
    DoneArithmetic => AgreesWith(result, RefOutcome(request.expression, FALSE))

\* calculate("- 2 ** 2") has returned -4
C6_MinusTwoSquared ==
    /\ Done("calculate") /\ request.expression = <<"-", "2", "**", "2">>
    /\ result = Returned(Fin(0 - 4, 0))

====
